---- MODULE Spec2Model ----
(***************************************************************************)
(* DataExtractor (crypto_analysis/data/data_extractor.py).                 *)
(*                                                                         *)
(*   Spec       the market-snapshot cache, one call at a time:             *)
(*              request_all_crypto_info and check_last_modified_date over  *)
(*              a file system, a wall clock and a remote API.              *)
(*   SpecRace   two callers of request_all_crypto_info on one cache file,  *)
(*              interleaved at every file-system and network access.       *)
(*   SpecStats  get_minmax_position and get_diff_prices over close prices. *)
(*                                                                         *)
(* Time is counted in whole days.  Numbers are exact rationals plus the    *)
(* IEEE specials nan, inf and -inf; floating-point rounding is not         *)
(* modelled.  A CSV file is the sequence of its lines, a line the sequence *)
(* of its field texts.                                                     *)
(***************************************************************************)
EXTENDS Integers, Sequences, FiniteSets, TLC

VARIABLES now, fs, last, saved, proc, lastWriter, overlap, heap, stat

vars == <<now, fs, last, saved, proc, lastWriter, overlap, heap, stat>>
cacheVars == <<now, fs, last, saved>>
raceVars == <<proc, lastWriter, overlap>>
statVars == <<heap, stat>>

\* ------------------------------------------------------------------ bounds
\* Last day the clock reaches.
MaxNow == 8
\* Longest close-price series.
MaxLen == 3
\* Largest close price; the smallest is -1, a price that "went to zero or
\* negative".
MaxPrice == 2

\* ------------------------------------------------------- program constants
\* timedelta(days=7)
TTL == 7
\* datetime(1, 1, 1) as a day number: the days from it to 1970-01-01, negated.
\* Day 0 of the clock is no earlier than that.
datetime_min == -719162

\* ------------------------------------------------------------ Python values
Return(v) == [kind |-> "return", value |-> v]
Raise(e) == [kind |-> "raise", error |-> e]

\* ---------------------------------------------------------------- paths
\* A folder argument is a pathlib.Path or a str; parts are the pieces
\* between the "/" of its text, so that "data_files/" is <<"data_files", "">>.
DEFAULT_INFO_FILE == "crypto_100_info"
FileNames == {DEFAULT_INFO_FILE}
FolderArgs ==
    { [kind |-> "Path", parts |-> <<"data_files">>],
      [kind |-> "str", parts |-> <<"data_files">>],
      [kind |-> "str", parts |-> <<"data_files", "">>] }

\* Path / Path(f"{file_name}.csv") for a Path, folder + f"/{file_name}.csv"
\* for a str.
point_to_specific_file(folder_path, file_name) ==
    IF folder_path.kind = "Path"
    THEN [kind |-> "Path", parts |-> Append(folder_path.parts, file_name \o ".csv")]
    ELSE [kind |-> "str", parts |-> Append(folder_path.parts, file_name \o ".csv")]

RECURSIVE DropEmpty(_)
DropEmpty(parts) ==
    IF parts = <<>> THEN <<>>
    ELSE IF Head(parts) = "" THEN DropEmpty(Tail(parts))
    ELSE <<Head(parts)>> \o DropEmpty(Tail(parts))

\* The file a path names: the operating system skips empty components.
Resolve(path) == DropEmpty(path.parts)

RECURSIVE StripTrailing(_)
StripTrailing(parts) ==
    IF parts # <<>> /\ parts[Len(parts)] = ""
    THEN StripTrailing(SubSeq(parts, 1, Len(parts) - 1))
    ELSE parts

RECURSIVE JoinSlash(_)
JoinSlash(parts) ==
    IF parts = <<>> THEN ""
    ELSE IF Len(parts) = 1 THEN parts[1]
    ELSE parts[1] \o "/" \o JoinSlash(Tail(parts))

\* os.path.split: (head, tail), the head without its trailing slashes.
os_path_split(path) ==
    [directory |-> JoinSlash(StripTrailing(SubSeq(path.parts, 1, Len(path.parts) - 1))),
     filename |-> path.parts[Len(path.parts)]]

TargetFiles == { Resolve(point_to_specific_file(f, n)) : f \in FolderArgs, n \in FileNames }

\* ------------------------------------------------------------- file system
Absent == [exists |-> FALSE]
File(content, mtime) == [exists |-> TRUE, content |-> content, mtime |-> mtime]

os_path_exists(files, path) == files[Resolve(path)].exists
os_path_getmtime(files, path) == files[Resolve(path)].mtime

\* Mutant: request_all_crypto_info asks for the strict check.
RequestRaiseError_Strict == TRUE

\* raise_error as request_all_crypto_info passes it: not at all, so the
\* parameter's default, False.
RequestRaiseError == FALSE

\* Mutant: raise_error is ignored and a missing file always gives the sentinel.
check_last_modified_date_never_raises(files, file_path, raise_error) ==
    IF ~os_path_exists(files, file_path)
    THEN Return(datetime_min)
    ELSE Return(os_path_getmtime(files, file_path))

check_last_modified_date(files, file_path, raise_error) ==
    IF ~os_path_exists(files, file_path)
    THEN LET s == os_path_split(file_path) IN
         IF raise_error
         THEN Raise([type |-> "FileNotFoundError", filename |-> s.filename,
                     directory |-> s.directory])
         ELSE Return(datetime_min)
    ELSE Return(os_path_getmtime(files, file_path))

\* Mutant: the window is a day too long.
IsFresh_OffByOne(clock, last_modified) == clock - last_modified <= TTL + 1

\* (datetime.now() - last_modified) <= timedelta(days=7)
IsFresh(clock, last_modified) == clock - last_modified <= TTL

\* ---------------------------------------------------------- tabular data
\* A JSON value of the API's response; a number is kept as its text.
JNum(v) == [t |-> "num", v |-> v]
JStr(v) == [t |-> "str", v |-> v]
JNull == [t |-> "null", v |-> ""]

\* JSON arrays of objects with homogeneous keys: the keys, and each object's
\* values in key order.
Payloads ==
    { [keys |-> <<>>, rows |-> <<>>],
      [keys |-> <<"id", "rank">>,
       rows |-> << <<JStr("btc"), JNum("1")>>, <<JStr("eth"), JNull>> >>],
      [keys |-> <<"id", "rank">>, rows |-> << <<JStr("7"), JNum("2")>> >>],
      [keys |-> <<"id", "rank">>, rows |-> << <<JStr("NA"), JNull>> >>] }

\* What the GET can come to: a connection error, a body that is not JSON, a
\* JSON array.
Responses ==
    { [net |-> "error", body |-> "", json |-> [keys |-> <<>>, rows |-> <<>>]],
      [net |-> "ok", body |-> "text", json |-> [keys |-> <<>>, rows |-> <<>>]] }
    \cup { [net |-> "ok", body |-> "json", json |-> p] : p \in Payloads }

requests_get(resp) ==
    IF resp.net = "error" THEN Raise([type |-> "ConnectionError"]) ELSE Return(resp)

\* Mutant: a body that is not JSON is taken for an empty array.
response_json_swallow(r) == Return(r.json)

response_json(r) ==
    IF r.body # "json" THEN Raise([type |-> "JSONDecodeError"]) ELSE Return(r.json)

\* A cell of a DataFrame: a number, a string, NaN or None.
Cell(t, v) == [t |-> t, v |-> v]
NaN == Cell("nan", "")

ColumnOf(rows, j) == [i \in 1..Len(rows) |-> rows[i][j]]
IsNumericColumn(col) ==
    /\ \E i \in 1..Len(col) : col[i].t = "num"
    /\ \A i \in 1..Len(col) : col[i].t \in {"num", "null"}

\* pd.DataFrame(list of dicts): a null of a numeric column is NaN, a null of
\* any other column stays None.
DataFrame(data) ==
    [columns |-> data.keys,
     rows |-> [i \in 1..Len(data.rows) |->
                 [j \in 1..Len(data.keys) |->
                    LET c == data.rows[i][j] IN
                    IF c.t = "null"
                    THEN IF IsNumericColumn(ColumnOf(data.rows, j))
                         THEN NaN ELSE Cell("none", "")
                    ELSE Cell(c.t, c.v)]]]

\* The text to_csv writes for a cell: nothing for NaN and None.
CellText(c) == IF c.t \in {"nan", "none"} THEN "" ELSE c.v

\* df.to_csv(index=False): the header line, then a line per row.  A frame
\* without columns gives one blank line.
to_csv(df) ==
    <<df.columns>> \o
    [i \in 1..Len(df.rows) |-> [j \in 1..Len(df.columns) |-> CellText(df.rows[i][j])]]

\* read_csv's default missing-value texts and the texts it reads as numbers.
NaTexts == {"", "NA"}
NumericTexts == {"1", "2", "7"}

RECURSIVE DropBlank(_)
DropBlank(lines) ==
    IF lines = <<>> THEN <<>>
    ELSE IF Head(lines) = <<>> THEN DropBlank(Tail(lines))
    ELSE <<Head(lines)>> \o DropBlank(Tail(lines))

Field(line, j) == IF j <= Len(line) THEN line[j] ELSE ""

IsNumericTexts(data, j) ==
    /\ \E i \in 1..Len(data) : Field(data[i], j) \notin NaTexts
    /\ \A i \in 1..Len(data) : Field(data[i], j) \in NaTexts \cup NumericTexts

\* pd.read_csv on the lines of a file: blank lines are skipped, the first
\* line left is the header, a short row is filled with NaN, a row longer
\* than the header is a parse error, and each column's type is inferred from
\* its texts.
parse_csv(lines) ==
    LET kept == DropBlank(lines) IN
    IF kept = <<>> THEN Raise([type |-> "EmptyDataError"])
    ELSE LET header == Head(kept)
             data == Tail(kept)
         IN IF \E i \in 1..Len(data) : Len(data[i]) > Len(header)
            THEN Raise([type |-> "ParserError"])
            ELSE Return(
              [columns |-> header,
               rows |-> [i \in 1..Len(data) |->
                           [j \in 1..Len(header) |->
                              LET x == Field(data[i], j) IN
                              IF x \in NaTexts THEN NaN
                              ELSE IF IsNumericTexts(data, j) THEN Cell("num", x)
                              ELSE Cell("str", x)]]])

read_csv(files, path) ==
    IF ~os_path_exists(files, path)
    THEN Raise([type |-> "FileNotFoundError"])
    ELSE parse_csv(files[Resolve(path)].content)

\* ------------------------------------------------ request_all_crypto_info
\* One whole call: what it returns or raises, the file system it leaves and
\* the number of GETs it made.
request_all_crypto_info(files, clock, folder_path, file_name, save_file, resp) ==
    LET target_file == point_to_specific_file(folder_path, file_name)
        last_modified == check_last_modified_date(files, target_file, RequestRaiseError)
    IN
    IF last_modified.kind = "raise"
    THEN [ret |-> last_modified, fs |-> files, gets |-> 0]
    ELSE IF IsFresh(clock, last_modified.value)
    THEN [ret |-> read_csv(files, target_file), fs |-> files, gets |-> 0]
    ELSE LET r == requests_get(resp) IN
         IF r.kind = "raise" THEN [ret |-> r, fs |-> files, gets |-> 1]
         ELSE LET crypto_dict == response_json(r.value) IN
              IF crypto_dict.kind = "raise"
              THEN [ret |-> crypto_dict, fs |-> files, gets |-> 1]
              ELSE LET crypto_df == DataFrame(crypto_dict.value) IN
                   [ret |-> Return(crypto_df),
                    fs |-> IF save_file
                           THEN [files EXCEPT ![Resolve(target_file)] =
                                   File(to_csv(crypto_df), clock)]
                           ELSE files,
                    gets |-> 1]

\* ------------------------------------------------------- the cache, Spec
NoCall == [op |-> "none"]
NoResponse == [net |-> "none", body |-> "", json |-> [keys |-> <<>>, rows |-> <<>>]]
NotSaved == [has |-> FALSE]
RaceIdle == proc = <<>> /\ lastWriter = 0 /\ overlap = FALSE
StatsIdle == heap = <<>> /\ stat = [op |-> "none"]

\* The cache file is absent, or holds a snapshot with rows that an earlier
\* run of the program wrote on day 0.
InitCache ==
    /\ now = 0
    /\ fs \in [TargetFiles ->
                 {Absent} \cup { File(to_csv(DataFrame(p)), 0) :
                                   p \in {q \in Payloads : q.rows # <<>>} }]
    /\ last = NoCall
    /\ saved = [f \in TargetFiles |-> NotSaved]
    /\ RaceIdle
    /\ StatsIdle

\* A day passes.
Tick ==
    /\ now < MaxNow
    /\ now' = now + 1
    /\ UNCHANGED <<fs, last, saved, raceVars, statVars>>

\* A caller runs request_all_crypto_info to its end.  strict is what the
\* caller wants of a missing file; the function has no parameter to take it.
RequestAllCryptoInfo ==
    /\ \E folder_path \in FolderArgs, file_name \in FileNames, save_file \in BOOLEAN,
          strict \in BOOLEAN, resp \in Responses :
         LET out == request_all_crypto_info(fs, now, folder_path, file_name, save_file, resp)
             target == Resolve(point_to_specific_file(folder_path, file_name))
         IN /\ fs' = out.fs
            /\ last' = [op |-> "request", target |-> target, save_file |-> save_file,
                        strict |-> strict, resp |-> IF out.gets = 1 THEN resp ELSE NoResponse,
                        at |-> now, before |-> fs,
                        savedBefore |-> saved[target], ret |-> out.ret, gets |-> out.gets]
            /\ saved' = IF out.gets = 1 /\ out.ret.kind = "return" /\ save_file
                        THEN [saved EXCEPT ![target] = [has |-> TRUE, df |-> out.ret.value]]
                        ELSE saved
    /\ UNCHANGED <<now, raceVars, statVars>>

\* A caller runs check_last_modified_date on a file path.
CheckLastModifiedDate ==
    /\ \E folder_path \in FolderArgs, file_name \in FileNames, raise_error \in BOOLEAN :
         LET file_path == point_to_specific_file(folder_path, file_name) IN
         last' = [op |-> "check", target |-> Resolve(file_path), file_path |-> file_path,
                  file_name |-> file_name, raise_error |-> raise_error, at |-> now,
                  before |-> fs, ret |-> check_last_modified_date(fs, file_path, raise_error)]
    /\ UNCHANGED <<now, fs, saved, raceVars, statVars>>

Next == Tick \/ RequestAllCryptoInfo \/ CheckLastModifiedDate

Spec == InitCache /\ [][Next]_vars

\* ------------------------------------------------- properties of the cache
IsRequest == last.op = "request"
IsCheck == last.op = "check"
\* The target file as the last call found it, and its age then.
Before == last.before[last.target]
BeforeFresh == Before.exists /\ last.at - Before.mtime <= TTL
BeforeStale == ~Before.exists \/ last.at - Before.mtime > TTL
Fetched == DataFrame(last.resp.json)
GetFailed == last.resp.net = "error" \/ (last.resp.net = "ok" /\ last.resp.body # "json")
ExpectedDirectory == "data_files"
NotFound(file_name) ==
    Raise([type |-> "FileNotFoundError", filename |-> file_name \o ".csv",
           directory |-> ExpectedDirectory])

\* Two tables are equivalent when they have the same columns, the same
\* number of rows and, cell by cell, values of the same text (1 and "1",
\* NaN and None).
Equivalent(a, b) ==
    /\ a.columns = b.columns
    /\ Len(a.rows) = Len(b.rows)
    /\ \A i \in 1..Len(a.rows) : \A j \in 1..Len(a.columns) :
         CellText(a.rows[i][j]) = CellText(b.rows[i][j])

\* C1: a call that finds the cache file present and at most 7 days old
\* (exactly 7 included) makes no GET and returns the table the file holds.
C1_FreshServedFromCache ==
    (IsRequest /\ BeforeFresh) =>
        /\ last.gets = 0
        /\ last.ret.kind = "return"
        /\ last.ret = parse_csv(Before.content)
        /\ fs = last.before

\* C2: a call that finds the cache file absent or older than 7 days makes a
\* GET; when the GET gives a JSON array the call returns the fetched table,
\* and the file holds the fetched table, written at the time of the call,
\* if save_file is true and is left as it was if save_file is false.
C2_StaleFetches ==
    (IsRequest /\ BeforeStale) =>
        /\ last.gets = 1
        /\ ~GetFailed =>
             /\ last.ret = Return(Fetched)
             /\ last.save_file => fs[last.target] = File(to_csv(Fetched), last.at)
             /\ ~last.save_file => fs = last.before

C2_Witness ==
    /\ IsRequest /\ Before.exists /\ last.at - Before.mtime > TTL
    /\ last.save_file /\ last.ret.kind = "return"
    /\ fs[last.target].content # Before.content

\* C3: check_last_modified_date on a missing path returns datetime(1, 1, 1)
\* when raise_error is false and raises FileNotFoundError naming the file and
\* its directory when raise_error is true; on an existing path it returns the
\* file's modification time; it never changes the file system.
C3_CheckLastModified ==
    IsCheck =>
        /\ (~Before.exists /\ ~last.raise_error) => last.ret = Return(datetime_min)
        /\ (~Before.exists /\ last.raise_error) => last.ret = NotFound(last.file_name)
        /\ Before.exists => last.ret = Return(Before.mtime)
        /\ fs = last.before

C3_Witness ==
    /\ IsCheck /\ ~Before.exists /\ last.raise_error /\ last.file_path.kind = "str"
    /\ last.ret.kind = "raise"

\* C4 as claimed: a missing cache file makes request_all_crypto_info fetch by
\* default and raise FileNotFoundError, naming the file and its directory,
\* when the caller wants strict mode.
C4_StrictModeOfRequest ==
    (IsRequest /\ ~Before.exists) =>
        IF last.strict THEN last.ret = NotFound(DEFAULT_INFO_FILE) ELSE last.gets = 1

\* C4 amended: a missing cache file never makes request_all_crypto_info raise
\* FileNotFoundError, whatever the caller wants: the call goes on to the GET.
\* Only check_last_modified_date called with raise_error true, on a missing
\* file, raises it.
C4_MissingFileNeverFatal ==
    /\ (IsRequest /\ ~Before.exists) =>
           /\ last.gets = 1
           /\ ~(last.ret.kind = "raise" /\ last.ret.error.type = "FileNotFoundError")
    /\ (last.op # "none" /\ last.ret.kind = "raise"
          /\ last.ret.error.type = "FileNotFoundError") =>
           (IsCheck /\ last.raise_error /\ ~Before.exists)

C4_Witness ==
    /\ IsRequest /\ ~Before.exists /\ last.strict
    /\ last.gets = 1 /\ last.ret.kind = "return"

\* C5: once a call has fetched and saved a table, a later call on the same
\* file within the 7 days makes no GET and returns a table equivalent to the
\* saved one.
C5_RoundTrip ==
    (IsRequest /\ last.savedBefore.has /\ BeforeFresh) =>
        /\ last.gets = 0
        /\ last.ret.kind = "return"
        /\ Equivalent(last.ret.value, last.savedBefore.df)

\* C6: when the GET fails or its body is not JSON, the call raises that
\* error, has made exactly one GET, does not return the cached table, and
\* leaves the cache file's content and modification time as they were.
C6_FetchErrorPropagates ==
    (IsRequest /\ GetFailed) =>
        /\ last.ret.kind = "raise"
        /\ last.ret.error.type =
             (IF last.resp.net = "error" THEN "ConnectionError" ELSE "JSONDecodeError")
        /\ last.gets = 1
        /\ fs = last.before

C6_Witness ==
    /\ IsRequest /\ GetFailed /\ Before.exists /\ last.save_file
    /\ last.ret.kind = "raise"

\* ------------------------------------------------------------ numbers
RECURSIVE GCD(_, _)
GCD(a, b) == IF b = 0 THEN a ELSE GCD(b, a % b)
Abs(x) == IF x < 0 THEN -x ELSE x

\* The rational n/d (d # 0) in lowest terms with a positive denominator.
Num(n, d) ==
    LET g == GCD(Abs(n), Abs(d))
        sgn == IF d < 0 THEN -1 ELSE 1
    IN [k |-> "num", n |-> sgn * (n \div g), d |-> sgn * (d \div g)]
FNaN == [k |-> "nan", n |-> 0, d |-> 0]
FInf == [k |-> "inf", n |-> 1, d |-> 0]
FNegInf == [k |-> "-inf", n |-> -1, d |-> 0]

\* IEEE division of two integers: x/0 is inf, -inf or, for 0/0, nan.
IeeeDiv(a, b) ==
    IF b # 0 THEN Num(a, b)
    ELSE IF a = 0 THEN FNaN
    ELSE IF a > 0 THEN FInf ELSE FNegInf

\* v + c for an integer c.
IeeeAdd(v, c) == IF v.k = "num" THEN Num(v.n + c * v.d, v.d) ELSE v

\* np.log: the logarithm of a positive number is kept as a term; log(0) is
\* -inf, the logarithm of a negative number is nan.
np_log(v) ==
    IF v.k = "num"
    THEN IF v.n > 0 THEN [k |-> "log", n |-> v.n, d |-> v.d]
         ELSE IF v.n = 0 THEN FNegInf ELSE FNaN
    ELSE IF v.k = "inf" THEN FInf ELSE FNaN

\* Mutant: the division of two Python numbers, which raises on a zero divisor.
py_true_divide(a, b) ==
    IF b = 0 THEN Raise([type |-> "ZeroDivisionError"]) ELSE Return(Num(a, b))

\* numpy scalar / number: the left operand is a numpy scalar (.iloc[-1]), so
\* the division follows IEEE and warns; it does not raise.
np_true_divide(a, b) == Return(IeeeDiv(a, b))

\* ----------------------------------------------------- price statistics
\* min(...) and max(...) of the builtins: a left-to-right scan that keeps the
\* first of equal values.
RECURSIVE ScanMin(_, _)
ScanMin(best, rest) ==
    IF rest = <<>> THEN best
    ELSE ScanMin(IF Head(rest) < best THEN Head(rest) ELSE best, Tail(rest))
RECURSIVE ScanMax(_, _)
ScanMax(best, rest) ==
    IF rest = <<>> THEN best
    ELSE ScanMax(IF Head(rest) > best THEN Head(rest) ELSE best, Tail(rest))

\* Mutant: the first row is taken for the latest.
get_minmax_position_first(df_input) ==
    LET Close == df_input["Close"] IN
    IF Close = <<>> THEN Raise([type |-> "ValueError"])
    ELSE LET min_value == ScanMin(Head(Close), Tail(Close))
             max_value == ScanMax(Head(Close), Tail(Close))
             latest_price == Close[1]
         IN np_true_divide(latest_price - min_value, max_value - min_value)

get_minmax_position(df_input) ==
    LET Close == df_input["Close"] IN
    IF Close = <<>> THEN Raise([type |-> "ValueError"])
    ELSE LET min_value == ScanMin(Head(Close), Tail(Close))
             max_value == ScanMax(Head(Close), Tail(Close))
             latest_price == Close[Len(Close)]
         IN np_true_divide(latest_price - min_value, max_value - min_value)

\* Mutant: no copy, the input itself.
DataFrame_alias(h, ref) == [heap |-> h, ref |-> ref]

\* input_df.copy(): a new object of the heap with the same columns.
DataFrame_copy(h, ref) == [heap |-> Append(h, h[ref]), ref |-> Len(h) + 1]

\* df[['Close']].diff()
Close_diff(Close) ==
    [i \in 1..Len(Close) |-> IF i = 1 THEN FNaN ELSE Num(Close[i] - Close[i - 1], 1)]
\* df[['Close']].pct_change(): Close / Close.shift(1) - 1
Close_pct_change(Close) ==
    [i \in 1..Len(Close) |->
       IF i = 1 THEN FNaN ELSE IeeeAdd(IeeeDiv(Close[i], Close[i - 1]), -1)]

SetColumn(df, name, values) == [c \in DOMAIN df \cup {name} |-> IF c = name THEN values ELSE df[c]]

\* get_diff_prices on the object input_df of heap h: the heap it leaves and
\* the object it returns.
get_diff_prices(h, input_df) ==
    LET c == DataFrame_copy(h, input_df)
        df == c.ref
        h1 == [c.heap EXCEPT ![df] = SetColumn(@, "abs_price_diff", Close_diff(@["Close"]))]
        h2 == [h1 EXCEPT ![df] = SetColumn(@, "pct_price_diff", Close_pct_change(@["Close"]))]
        h3 == [h2 EXCEPT ![df] =
                 SetColumn(@, "pct_log_price_value",
                           [i \in 1..Len(@["Close"]) |->
                              np_log(IeeeAdd(Close_pct_change(@["Close"])[i], 1))])]
    IN [heap |-> h3, ret |-> df]

\* ------------------------------------------------------------ SpecStats
Prices == -1..MaxPrice
\* The series of the documented examples.
ExampleCloses == { <<10, 20, 15>>, <<100, 110, 99>> }
CloseSeries == UNION { [1..n -> Prices] : n \in 0..MaxLen } \cup ExampleCloses

CacheIdle ==
    /\ now = 0
    /\ fs = [f \in TargetFiles |-> Absent]
    /\ last = NoCall
    /\ saved = [f \in TargetFiles |-> NotSaved]

\* The caller holds one OHLCV table, object 1 of the heap.
InitStats ==
    /\ heap \in { << [Close |-> c] >> : c \in CloseSeries }
    /\ stat = [op |-> "none"]
    /\ CacheIdle
    /\ RaceIdle

GetMinmaxPosition ==
    /\ heap # <<>>
    /\ stat' = [op |-> "minmax", input |-> heap[1], ret |-> get_minmax_position(heap[1])]
    /\ UNCHANGED <<heap, cacheVars, raceVars>>

\* The caller drops the table of an earlier call before it calls again.
GetDiffPrices ==
    /\ heap # <<>>
    /\ LET out == get_diff_prices(<<heap[1]>>, 1) IN
         /\ heap' = out.heap
         /\ stat' = [op |-> "diff", input |-> heap[1], ret |-> out.ret]
    /\ UNCHANGED <<cacheVars, raceVars>>

NextStats == GetMinmaxPosition \/ GetDiffPrices

SpecStats == InitStats /\ [][NextStats]_vars

\* ------------------------------------------ properties of the statistics
Range(seq) == { seq[i] : i \in 1..Len(seq) }
Least(S) == CHOOSE x \in S : \A y \in S : x <= y
Greatest(S) == CHOOSE x \in S : \A y \in S : x >= y
IsMinmax == stat.op = "minmax"
IsDiff == stat.op = "diff"
InputClose == stat.input["Close"]
AddedColumns == {"abs_price_diff", "pct_price_diff", "pct_log_price_value"}
\* No finite value: nan, or the -inf numpy gives for log(0).
Undefined == {FNaN, FNegInf}

\* C7: for a non-empty series of closes whose least value is below its
\* greatest, get_minmax_position returns (last - least) / (greatest - least),
\* a value in [0, 1]; for closes 10, 20, 15 it returns 1/2.
C7_MinmaxPosition ==
    /\ (IsMinmax /\ InputClose # <<>> /\ Least(Range(InputClose)) < Greatest(Range(InputClose))) =>
         LET lo == Least(Range(InputClose))
             hi == Greatest(Range(InputClose))
             v == stat.ret.value
         IN /\ stat.ret.kind = "return"
            /\ v.k = "num"
            /\ v.n * (hi - lo) = (InputClose[Len(InputClose)] - lo) * v.d
            /\ 0 <= v.n /\ v.n <= v.d
    /\ (IsMinmax /\ InputClose = <<10, 20, 15>>) => stat.ret = Return(Num(1, 2))

C7_Witness ==
    /\ IsMinmax /\ InputClose = <<10, 20, 15>>
    /\ stat.ret.kind = "return"

\* C8: get_diff_prices returns a new table, the input's columns plus three,
\* and leaves the input as it was.  In the first row the three values are
\* NaN.  In every later row i the absolute difference is
\* close[i] - close[i-1]; the percentage change is that difference divided by
\* close[i-1] (not finite when close[i-1] is 0); the third value is the
\* logarithm of 1 + percentage change when that exceeds 0 and has no finite
\* value when the percentage change is <= -1.
C8_DiffPrices ==
    IsDiff =>
        LET df == heap[stat.ret]
            Close == InputClose
        IN /\ stat.ret # 1
           /\ heap[1] = stat.input
           /\ DOMAIN df = DOMAIN stat.input \cup AddedColumns
           /\ \A c \in DOMAIN stat.input : df[c] = stat.input[c]
           /\ \A c \in AddedColumns : Len(df[c]) = Len(Close)
           /\ Close # <<>> => \A c \in AddedColumns : df[c][1] = FNaN
           /\ \A i \in 2..Len(Close) :
                LET d == Close[i] - Close[i - 1]
                    pct == df["pct_price_diff"][i]
                    lg == df["pct_log_price_value"][i]
                IN /\ df["abs_price_diff"][i] = Num(d, 1)
                   /\ Close[i - 1] # 0 => pct = Num(d, Close[i - 1])
                   /\ Close[i - 1] = 0 => pct.k # "num"
                   /\ (pct.k = "num" /\ pct.n + pct.d > 0) =>
                          lg = [k |-> "log", n |-> pct.n + pct.d, d |-> pct.d]
                   /\ (pct.k = "num" /\ pct.n + pct.d <= 0) => lg \in Undefined
           /\ Close = <<100, 110, 99>> =>
                /\ df["abs_price_diff"] = <<FNaN, Num(10, 1), Num(-11, 1)>>
                /\ df["pct_price_diff"] = <<FNaN, Num(1, 10), Num(-1, 10)>>
                /\ df["pct_log_price_value"] =
                     <<FNaN, [k |-> "log", n |-> 11, d |-> 10], [k |-> "log", n |-> 9, d |-> 10]>>

C8_Witness ==
    /\ IsDiff /\ Len(InputClose) = 3
    /\ \E i \in 2..3 : heap[stat.ret]["pct_log_price_value"][i] \in Undefined
    /\ \E i \in 2..3 : heap[stat.ret]["pct_log_price_value"][i].k = "log"

\* C9 as claimed: when every close is the same, get_minmax_position fails:
\* the division by zero raises.
C9_ConstantPriceRaises ==
    (IsMinmax /\ InputClose # <<>> /\ Cardinality(Range(InputClose)) = 1) =>
        stat.ret.kind = "raise"

\* C9 amended: when every close is the same, get_minmax_position does not
\* raise: it returns nan, the IEEE value of 0/0, which is no value of [0, 1].
C9_ConstantPriceGivesNaN ==
    (IsMinmax /\ InputClose # <<>> /\ Cardinality(Range(InputClose)) = 1) =>
        stat.ret = Return(FNaN)

C9_Witness ==
    /\ IsMinmax /\ Len(InputClose) = 3 /\ Cardinality(Range(InputClose)) = 1
    /\ stat.ret.kind = "return"

\* ------------------------------------------------------------- SpecRace
\* Two callers run request_all_crypto_info on the default folder and file.
\* A step is one access to the file system or to the network.  to_csv opens
\* the file for writing, which empties it, and its buffered writer then
\* writes the text piece by piece at the writer's own offset; a piece is
\* taken to be a line.
Callers == {1, 2}
RaceTarget == point_to_specific_file([kind |-> "Path", parts |-> <<"data_files">>],
                                     DEFAULT_INFO_FILE)
NoFrame == [columns |-> <<>>, rows |-> <<>>]
NotReturned == [kind |-> "none"]
\* The bytes of a hole: what a write beyond the end of the file leaves before it.
Hole == <<"\\0">>

\* Mutant: the file is opened without being emptied.
open_keep(file, clock) == IF file.exists THEN File(file.content, clock) ELSE File(<<>>, clock)

\* open(target_file, "w")
open_truncate(file, clock) == File(<<>>, clock)

\* One write of the line at position pos of the writer's text.
write_at(file, pos, line, clock) ==
    LET old == file.content
        n == IF pos > Len(old) THEN pos ELSE Len(old)
    IN File([i \in 1..n |-> IF i = pos THEN line
                             ELSE IF i <= Len(old) THEN old[i] ELSE Hole],
            clock)

InitRace ==
    /\ now \in {0, MaxNow}
    /\ fs \in [TargetFiles ->
                 {Absent} \cup { File(to_csv(DataFrame(p)), 0) :
                                   p \in {q \in Payloads : q.rows # <<>>} }]
    /\ last = NoCall
    /\ saved = [f \in TargetFiles |-> NotSaved]
    /\ proc = [c \in Callers |->
                 [pc |-> "start", save_file |-> FALSE, fresh |-> FALSE, gets |-> 0,
                  df |-> NoFrame, off |-> 0, ret |-> NotReturned]]
    /\ lastWriter = 0
    /\ overlap = FALSE
    /\ StatsIdle

\* Lines 42-44: the path, the file's modification time, the comparison.
Stat(c) ==
    /\ proc[c].pc = "start"
    /\ \E save_file \in BOOLEAN :
         LET last_modified == check_last_modified_date(fs, RaceTarget, RequestRaiseError)
             fresh == IsFresh(now, last_modified.value)
         IN proc' = [proc EXCEPT ![c].save_file = save_file, ![c].fresh = fresh,
                                 ![c].pc = IF fresh THEN "read" ELSE "get"]
    /\ UNCHANGED <<cacheVars, lastWriter, overlap, statVars>>

\* Line 45: read_csv of the file as it is now.
Read(c) ==
    /\ proc[c].pc = "read"
    /\ proc' = [proc EXCEPT ![c].ret = read_csv(fs, RaceTarget), ![c].pc = "done"]
    /\ UNCHANGED <<cacheVars, lastWriter, overlap, statVars>>

\* Lines 47-49: the GET, its JSON, the DataFrame.
Get(c) ==
    /\ proc[c].pc = "get"
    /\ \E resp \in Responses :
         LET r == requests_get(resp)
             crypto_dict == IF r.kind = "raise" THEN r ELSE response_json(r.value)
         IN IF crypto_dict.kind = "raise"
            THEN proc' = [proc EXCEPT ![c].gets = @ + 1, ![c].ret = crypto_dict,
                                      ![c].pc = "done"]
            ELSE LET crypto_df == DataFrame(crypto_dict.value) IN
                 proc' = [proc EXCEPT ![c].gets = @ + 1, ![c].df = crypto_df,
                                      ![c].ret = IF proc[c].save_file THEN NotReturned
                                                 ELSE Return(crypto_df),
                                      ![c].pc = IF proc[c].save_file THEN "open" ELSE "done"]
    /\ UNCHANGED <<cacheVars, lastWriter, overlap, statVars>>

\* Line 51, to_csv opening the file.
Open(c) ==
    /\ proc[c].pc = "open"
    /\ fs' = [fs EXCEPT ![Resolve(RaceTarget)] = open_truncate(@, now)]
    /\ proc' = [proc EXCEPT ![c].pc = "write", ![c].off = 0]
    /\ lastWriter' = c
    /\ overlap' = (overlap \/ \E o \in Callers \ {c} : proc[o].pc = "write")
    /\ UNCHANGED <<now, last, saved, statVars>>

\* Line 51, to_csv writing its next line.
WriteLine(c) ==
    /\ proc[c].pc = "write"
    /\ proc[c].off < Len(to_csv(proc[c].df))
    /\ fs' = [fs EXCEPT ![Resolve(RaceTarget)] =
                write_at(@, proc[c].off + 1, to_csv(proc[c].df)[proc[c].off + 1], now)]
    /\ proc' = [proc EXCEPT ![c].off = @ + 1]
    /\ lastWriter' = c
    /\ UNCHANGED <<now, last, saved, overlap, statVars>>

\* Lines 51-53: to_csv closes the file and the call returns.
Close(c) ==
    /\ proc[c].pc = "write"
    /\ proc[c].off = Len(to_csv(proc[c].df))
    /\ proc' = [proc EXCEPT ![c].pc = "done", ![c].ret = Return(proc[c].df)]
    /\ UNCHANGED <<cacheVars, lastWriter, overlap, statVars>>

NextRace ==
    \E c \in Callers : Stat(c) \/ Read(c) \/ Get(c) \/ Open(c) \/ WriteLine(c) \/ Close(c)

SpecRace == InitRace /\ [][NextRace]_vars

\* Both callers found the file stale or absent, fetched, saved and returned.
BothSaved ==
    /\ proc # <<>>
    /\ \A c \in Callers :
         /\ proc[c].pc = "done" /\ ~proc[c].fresh
         /\ proc[c].save_file /\ proc[c].ret.kind = "return"
RaceFile == fs[Resolve(RaceTarget)]

\* C10 as claimed: when both callers found the file stale or absent and
\* saved, each made a GET and returned its own table, and once both have
\* finished the file holds exactly the table of the caller that wrote last.
C10_LastWriterWins ==
    BothSaved =>
        /\ \A c \in Callers : proc[c].gets = 1 /\ proc[c].ret = Return(proc[c].df)
        /\ RaceFile.content = to_csv(proc[lastWriter].df)

\* C10 amended: each made a GET and returned its own table; the file holds
\* exactly the table of the caller that wrote last when the two to_csv calls
\* did not overlap in time.
C10_LastWriterWinsUnlessOverlap ==
    BothSaved =>
        /\ \A c \in Callers : proc[c].gets = 1 /\ proc[c].ret = Return(proc[c].df)
        /\ ~overlap => RaceFile.content = to_csv(proc[lastWriter].df)

C10_Witness ==
    /\ BothSaved /\ ~overlap
    /\ proc[1].df # proc[2].df
    /\ Len(proc[lastWriter].df.rows) < Len(proc[3 - lastWriter].df.rows)
    /\ RaceFile.content = to_csv(proc[lastWriter].df)
====
